---- MODULE Spec2Model ----
(***************************************************************************)
(* State-machine model of the PubMed ingestion script (load_data.py) and   *)
(* of the MedicalAbstract table (models.py).  One process run is main();   *)
(* the table outlives the process, so the script can be run again on the   *)
(* rows an earlier run left behind.                                        *)
(***************************************************************************)
EXTENDS Integers, Sequences, FiniteSets, TLC

\* ------------------------------------------------------------------ bounds
MaxFetchPmid == 2   \* identifiers of the corpus that serves every record shape
MaxRuns == 2        \* how often the script is run against the same table
MaxBatchSize == 2   \* BATCH_SIZE ranges over 1 .. MaxBatchSize
MAX_PAPERS == 3     \* retmax of the search (500 in the script); the load
                    \* corpus holds the identifiers "1" .. "MAX_PAPERS"

VARIABLES
    pc,            \* position of the process in main()
    exitStatus,    \* process exit status once pc = "exited", else NoStatus
    reported,      \* which diagnostic was printed: "none", "init" or "catch"
    raised,        \* the exception that ended the run, or "none"
    BATCH_SIZE,    \* the configured batch size
    corpus,        \* the external source: identifier -> parsed PubmedArticle
    store,         \* committed rows of table medicalabstract, in insertion order
    run,           \* number of the current process run
    storeAtStart,  \* the table as the current run found it
    id_list,       \* fetch_pubmed_abstracts: record["IdList"]
    records,       \* fetch_pubmed_abstracts: records['PubmedArticle']
    papers,        \* the fetched papers
    i,             \* load_data_into_db: loop index
    batch_papers,  \* load_data_into_db: current slice
    embeddings,    \* load_data_into_db: result of model.encode
    log            \* events of the current run, in order

vars == <<pc, exitStatus, reported, raised, BATCH_SIZE, corpus, store, run,
          storeAtStart, id_list, records, papers, i, batch_papers, embeddings,
          log>>

NoStatus == 0 - 1

\* ------------------------------------------------------------ small helpers
Has(d, k) == k \in DOMAIN d

Distinct(s) == \A a, b \in DOMAIN s : a # b => s[a] # s[b]

Min(a, b) == IF a < b THEN a ELSE b

\* All sequences without repetition over S of length at most n.
RECURSIVE DistinctSeqs(_, _)
DistinctSeqs(S, n) ==
    IF n = 0 \/ S = {} THEN {<<>>}
    ELSE {<<>>} \cup
         UNION {{<<x>> \o t : t \in DistinctSeqs(S \ {x}, n - 1)} : x \in S}

Pmid(n) == ToString(n)

\* ------------------------------------------------- the external source
\* The parsed XML of one PubmedArticle, per shape the feed can take.
\* AbstractText is tagged with its Python type (list of parts, or one str).
PyList(parts) == [list |-> TRUE, parts |-> parts]
PyStr(s) == [list |-> FALSE, text |-> s]

FullDate == <<[Year |-> "2020", Month |-> "05", Day |-> "17"]>>

Article(title, abstract, date) ==
    [ArticleTitle |-> title, Abstract |-> abstract, ArticleDate |-> date]

Citation(p, article) == [MedlineCitation |-> [PMID |-> p, Article |-> article]]

AllShapes ==
    {"full", "multi_part", "str_abstract", "no_date", "empty_date_list",
     "date_no_day", "no_abstract", "empty_abstract", "no_abstract_text",
     "empty_title", "no_title", "no_pmid", "no_article", "no_citation"}

CoreShapes == {"full", "no_abstract"}

RawRecord(p, shape) ==
    LET t == "T" \o p
        a == [AbstractText |-> PyList(<<"A" \o p>>)]
    IN CASE shape = "full" -> Citation(p, Article(t, a, FullDate))
         [] shape = "multi_part" ->
              Citation(p, Article(t, [AbstractText |-> PyList(<<"A" \o p, "B" \o p>>)],
                                  FullDate))
         [] shape = "str_abstract" ->
              Citation(p, Article(t, [AbstractText |-> PyStr("A" \o p)], FullDate))
         [] shape = "no_date" ->
              Citation(p, [ArticleTitle |-> t, Abstract |-> a])
         [] shape = "empty_date_list" -> Citation(p, Article(t, a, <<>>))
         [] shape = "date_no_day" ->
              Citation(p, Article(t, a, <<[Year |-> "2020", Month |-> "05"]>>))
         [] shape = "no_abstract" ->
              Citation(p, [ArticleTitle |-> t, ArticleDate |-> FullDate])
         [] shape = "empty_abstract" ->
              Citation(p, Article(t, [AbstractText |-> PyList(<<>>)], FullDate))
         [] shape = "no_abstract_text" ->
              Citation(p, Article(t, [CopyrightInformation |-> "c"], FullDate))
         [] shape = "empty_title" -> Citation(p, Article("", a, FullDate))
         [] shape = "no_title" ->
              Citation(p, [Abstract |-> a, ArticleDate |-> FullDate])
         [] shape = "no_pmid" ->
              [MedlineCitation |-> [Article |-> Article(t, a, FullDate)]]
         [] shape = "no_article" -> [MedlineCitation |-> [PMID |-> p]]
         [] shape = "no_citation" -> [PubmedData |-> p]

\* The sources that hold the identifiers ids, each article in one of shapes.
Corpora(ids, shapes) ==
    {c \in [ids -> UNION {{RawRecord(p, s) : s \in shapes} : p \in ids}] :
        \A p \in ids : c[p] \in {RawRecord(p, s) : s \in shapes}}

\* Entrez.efetch + Entrez.read: one article per identifier, in the order asked.
Efetch(source, ids) == [n \in DOMAIN ids |-> source[ids[n]]]

\* --------------------------------------------- fetch_pubmed_abstracts
\* " ".join(parts)
RECURSIVE Join(_)
Join(parts) ==
    IF parts = <<>> THEN ""
    ELSE IF Len(parts) = 1 THEN parts[1]
    ELSE parts[1] \o " " \o Join(Tail(parts))

\* Lines 54-61.
AbstractTextOf(article) ==
    IF Has(article, "Abstract")
    THEN LET abstract_parts == article.Abstract.AbstractText
         IN IF abstract_parts.list THEN Join(abstract_parts.parts)
            ELSE abstract_parts.text
    ELSE ""

\* Lines 64-66.
PubDateOf(article) ==
    IF Has(article, "ArticleDate")
    THEN LET d == article.ArticleDate[1]
         IN d.Year \o "-" \o d.Month \o "-" \o d.Day
    ELSE ""

\* The exception the body of the try raises on a record, "none" if none:
\* a missing key is a KeyError, [0] on an empty list is an IndexError.
RaisedBy(record) ==
    IF ~Has(record, "MedlineCitation") THEN "KeyError"
    ELSE IF ~Has(record.MedlineCitation, "Article") THEN "KeyError"
    ELSE IF ~Has(record.MedlineCitation, "PMID") THEN "KeyError"
    ELSE LET article == record.MedlineCitation.Article
         IN IF ~Has(article, "ArticleTitle") THEN "KeyError"
            ELSE IF Has(article, "Abstract") /\ ~Has(article.Abstract, "AbstractText")
                 THEN "KeyError"
            ELSE IF ~Has(article, "ArticleDate") THEN "none"
            ELSE IF article.ArticleDate = <<>> THEN "IndexError"
            ELSE IF \E k \in {"Year", "Month", "Day"} : ~Has(article.ArticleDate[1], k)
                 THEN "KeyError"
            ELSE "none"

\* One iteration of the loop of lines 47-77: what it does to papers.
\* KeyError is caught (the paper is skipped); anything else leaves the loop.
ProcessRecord(acc, record) ==
    LET exc == RaisedBy(record)
    IN IF exc = "KeyError" THEN [raised |-> "none", papers |-> acc]
       ELSE IF exc # "none" THEN [raised |-> exc, papers |-> acc]
       ELSE LET article == record.MedlineCitation.Article
                title == article.ArticleTitle
                abstract_text == AbstractTextOf(article)
            IN IF title # "" /\ abstract_text # ""
               THEN [raised |-> "none",
                     papers |-> Append(acc,
                        [pmid |-> record.MedlineCitation.PMID,
                         title |-> title,
                         abstract |-> abstract_text,
                         publication_date |-> PubDateOf(article)])]
               ELSE [raised |-> "none", papers |-> acc]

\* The loop of lines 46-77 over records[n..], started with papers = acc.
RECURSIVE ProcessFrom(_, _, _)
ProcessFrom(recs, n, acc) ==
    IF n > Len(recs) THEN [raised |-> "none", papers |-> acc]
    ELSE LET step == ProcessRecord(acc, recs[n])
         IN IF step.raised # "none" THEN step
            ELSE ProcessFrom(recs, n + 1, step.papers)

ProcessRecords(recs) == ProcessFrom(recs, 1, <<>>)

\* ------------------------------------------------- the embedding provider
\* model.encode(texts): one vector per text, in the order of the texts.  The
\* vector of a text is kept symbolic; its components are tagged by the text.
NdArray(txt) == [ndarray |-> <<"e1:" \o txt, "e2:" \o txt>>]

Encode(texts) == [n \in 1..Len(texts) |-> NdArray(texts[n])]

\* embedding.tolist()
ToList(embedding) == embedding.ndarray

\* ------------------------------------------------------ the table (models.py)
Pmids(rows) == {rows[n].pmid : n \in DOMAIN rows}

\* Mutant of UniqueViolation: the column carries no unique constraint against
\* the rows already stored.
UniqueViolationUnindexed(table, objects) ==
    ~Distinct([n \in DOMAIN objects |-> objects[n].pmid])

\* pmid: unique=True.  Inserting objects into table breaks the constraint when
\* one of them repeats a pmid of the table or of an earlier object.
UniqueViolation(table, objects) ==
    \/ \E n \in DOMAIN objects : objects[n].pmid \in Pmids(table)
    \/ ~Distinct([n \in DOMAIN objects |-> objects[n].pmid])

\* Mutant of CommitResult: every row is committed on its own, up to the first
\* one that breaks the constraint.
RECURSIVE InsertEach(_, _)
InsertEach(table, objects) ==
    IF objects = <<>> THEN [raised |-> "none", store |-> table]
    ELSE IF Head(objects).pmid \in {table[n].pmid : n \in DOMAIN table}
         THEN [raised |-> "IntegrityError", store |-> table]
    ELSE InsertEach(Append(table, Head(objects)), Tail(objects))

CommitPerRow(table, objects, fault) ==
    IF fault THEN [raised |-> "OperationalError", store |-> table]
    ELSE InsertEach(table, objects)

\* Mutant of CommitResult: a batch that breaks the constraint is skipped.
CommitSkipExisting(table, objects, fault) ==
    IF fault THEN [raised |-> "OperationalError", store |-> table]
    ELSE IF \/ \E n \in DOMAIN objects :
                 objects[n].pmid \in {table[m].pmid : m \in DOMAIN table}
            \/ ~Distinct([n \in DOMAIN objects |-> objects[n].pmid])
         THEN [raised |-> "none", store |-> table]
    ELSE [raised |-> "none", store |-> table \o objects]

\* session.add_all(objects); session.commit(): one transaction.  fault is the
\* database failing for a reason of its own (connection lost, ...).
CommitResult(table, objects, fault) ==
    IF fault THEN [raised |-> "OperationalError", store |-> table]
    ELSE IF UniqueViolation(table, objects)
         THEN [raised |-> "IntegrityError", store |-> table]
    ELSE [raised |-> "none", store |-> table \o objects]

\* --------------------------------------------------------- load_data_into_db
\* Mutant of Slice: the slice ends one record early.
SliceShort(seq, from, size) == SubSeq(seq, from + 1, Min(from + size - 1, Len(seq)))

\* papers[i : i + BATCH_SIZE]
Slice(seq, from, size) == SubSeq(seq, from + 1, Min(from + size, Len(seq)))

\* i // BATCH_SIZE + 1
BatchNumber(from, size) == (from \div size) + 1

\* Mutant of NextIndex: the loop steps by one record, not by one batch.
NextIndexByOne(from, size) == from + 1

\* range(0, len(papers), BATCH_SIZE): the index after from
NextIndex(from, size) == from + size

\* Mutant of Zip: the vectors are paired in the opposite order.
ZipReversed(a, b) ==
    LET m == Min(Len(a), Len(b)) IN [n \in 1..m |-> <<a[n], b[m + 1 - n]>>]

\* zip(batch_papers, embeddings)
Zip(a, b) == [n \in 1..Min(Len(a), Len(b)) |-> <<a[n], b[n]>>]

\* MedicalAbstract(...).  id is assigned by the database and never read by
\* the script.
MedicalAbstract(paper, embedding) ==
    [pmid |-> paper.pmid,
     title |-> paper.title,
     abstract |-> paper.abstract,
     publication_date |-> paper.publication_date,
     embedding |-> ToList(embedding)]

\* Lines 98-108.
ObjectsToAdd(batch, embs) ==
    LET pairs == Zip(batch, embs)
    IN [n \in DOMAIN pairs |-> MedicalAbstract(pairs[n][1], pairs[n][2])]

\* ------------------------------------------------------------------- events
\* An event of the run: its kind, the batch number it belongs to (0 if none),
\* and what it handled (a count; for "embed" the batch that was embedded).
Event(ev, k, n) == [ev |-> ev, k |-> k, n |-> n]

Events(name) == {n \in DOMAIN log : log[n].ev = name}

Count(name) == Cardinality(Events(name))

\* ---------------------------------------------------------- process endings
\* Mutant of SysExit: SystemExit swallowed by the top-level catch.
SysExitCaught(status, diagnostic) ==
    /\ pc' = "exited"
    /\ exitStatus' = 0
    /\ reported' = "catch"

\* sys.exit(status): SystemExit is no Exception, main's except lets it pass.
SysExit(status, diagnostic) ==
    /\ pc' = "exited"
    /\ exitStatus' = status
    /\ reported' = diagnostic

\* Mutant of Catch: the handler exits with the status of an initialization
\* failure.
CatchExitOne(exc) ==
    /\ pc' = "exited"
    /\ exitStatus' = 1
    /\ reported' = "catch"
    /\ raised' = exc

\* main, lines 148-150: the top-level catch prints and main returns.
Catch(exc) ==
    /\ pc' = "exited"
    /\ exitStatus' = 0
    /\ reported' = "catch"
    /\ raised' = exc

\* ------------------------------------------------------------------ actions
InitCommon ==
    /\ pc = "start"
    /\ exitStatus = NoStatus
    /\ reported = "none"
    /\ raised = "none"
    /\ BATCH_SIZE \in 1..MaxBatchSize
    /\ store = <<>>
    /\ run = 1
    /\ storeAtStart = <<>>
    /\ id_list = <<>>
    /\ records = <<>>
    /\ papers = <<>>
    /\ i = 0
    /\ batch_papers = <<>>
    /\ embeddings = <<>>
    /\ log = <<>>

Init ==
    /\ InitCommon
    /\ corpus \in Corpora({Pmid(n) : n \in 1..MAX_PAPERS}, CoreShapes)

InitFetch ==
    /\ InitCommon
    /\ corpus \in Corpora({Pmid(n) : n \in 1..MaxFetchPmid}, AllShapes)

\* main, line 123
CreateEngine ==
    /\ pc = "start"
    /\ \E ok \in BOOLEAN :
         IF ok THEN /\ pc' = "init_db"
                    /\ UNCHANGED <<exitStatus, reported, raised>>
         ELSE Catch("ArgumentError")
    /\ UNCHANGED <<BATCH_SIZE, corpus, store, run, storeAtStart,
                   id_list, records, papers, i, batch_papers,
                   embeddings, log>>

\* initialize_database, lines 16-28 (called at line 126)
InitializeDatabase ==
    /\ pc = "init_db"
    /\ \E ok \in BOOLEAN :
         IF ok THEN /\ pc' = "load_model"
                    /\ log' = Append(log, Event("init_db", 0, 0))
                    /\ UNCHANGED <<exitStatus, reported, raised>>
         ELSE /\ SysExit(1, "init")
              /\ raised' = "InitError"
              /\ log' = Append(log, Event("init_failed", 0, 0))
    /\ UNCHANGED <<BATCH_SIZE, corpus, store, run, storeAtStart,
                   id_list, records, papers, i, batch_papers,
                   embeddings>>

\* main, lines 129-132
LoadModel ==
    /\ pc = "load_model"
    /\ \E ok \in BOOLEAN :
         IF ok THEN /\ pc' = "fetch"
                    /\ log' = Append(log, Event("model", 0, 0))
                    /\ UNCHANGED <<exitStatus, reported, raised>>
         ELSE /\ Catch("ModelError")
              /\ UNCHANGED log
    /\ UNCHANGED <<BATCH_SIZE, corpus, store, run, storeAtStart,
                   id_list, records, papers, i, batch_papers,
                   embeddings>>

\* fetch_pubmed_abstracts, lines 30-80 (called at line 135)
FetchPubmedAbstracts ==
    /\ pc = "fetch"
    /\ \/ \* esearch fails
          /\ Catch("HTTPError")
          /\ UNCHANGED <<id_list, records, papers, log>>
       \/ \E ids \in DistinctSeqs(DOMAIN corpus, MAX_PAPERS) :
            /\ id_list' = ids
            /\ \/ \* efetch fails
                  /\ Catch("HTTPError")
                  /\ log' = Append(log, Event("esearch", 0, Len(ids)))
                  /\ UNCHANGED <<records, papers>>
               \/ LET recs == Efetch(corpus, ids)
                      result == ProcessRecords(recs)
                  IN /\ records' = recs
                     /\ IF result.raised = "none"
                        THEN /\ papers' = result.papers
                             /\ pc' = "fetched"
                             /\ log' = log \o <<Event("esearch", 0, Len(ids)),
                                                Event("fetch", 0, Len(result.papers))>>
                             /\ UNCHANGED <<exitStatus, reported, raised>>
                        ELSE /\ Catch(result.raised)
                             /\ log' = Append(log, Event("esearch", 0, Len(ids)))
                             /\ UNCHANGED papers
    /\ UNCHANGED <<BATCH_SIZE, corpus, store, run, storeAtStart,
                   i, batch_papers, embeddings>>

\* Mutant of NoPapers: the early exit is never taken.
NoPapersNever(found) == FALSE

\* if not papers
NoPapers(found) == found = <<>>

\* main, lines 137-142: exit early, or enter load_data_into_db
CheckPapers ==
    /\ pc = "fetched"
    /\ IF NoPapers(papers)
       THEN /\ SysExit(0, "none")
            /\ UNCHANGED <<i, log>>
       ELSE /\ pc' = "loop"
            /\ i' = 0
            /\ log' = Append(log, Event("load", 0, Len(papers)))
            /\ UNCHANGED <<exitStatus, reported>>
    /\ id_list' = <<>>
    /\ records' = <<>>
    /\ UNCHANGED <<raised, BATCH_SIZE, corpus, store, run, storeAtStart,
                   papers, batch_papers, embeddings>>

\* load_data_into_db, lines 87-95: slice the batch and embed it
EmbedBatch ==
    /\ pc = "loop"
    /\ i < Len(papers)
    /\ LET batch == Slice(papers, i, BATCH_SIZE)
           abstracts_to_embed == [n \in DOMAIN batch |-> batch[n].abstract]
       IN /\ batch_papers' = batch
          /\ \E ok \in BOOLEAN :
               IF ok THEN /\ embeddings' = Encode(abstracts_to_embed)
                          /\ pc' = "commit"
                          /\ log' = Append(log, Event("embed", BatchNumber(i, BATCH_SIZE),
                                                      batch))
                          /\ UNCHANGED <<exitStatus, reported, raised>>
               ELSE /\ Catch("EncodeError")
                    /\ UNCHANGED <<embeddings, log>>
    /\ UNCHANGED <<BATCH_SIZE, corpus, store, run, storeAtStart,
                   id_list, records, papers, i>>

\* load_data_into_db, lines 98-116: build the rows, add and commit them, and
\* step to the next batch
CommitBatch ==
    /\ pc = "commit"
    /\ \E fault \in BOOLEAN :
         LET k == BatchNumber(i, BATCH_SIZE)
             objects_to_add == ObjectsToAdd(batch_papers, embeddings)
             result == CommitResult(store, objects_to_add, fault)
         IN /\ store' = result.store
            /\ IF result.raised = "none"
               THEN /\ i' = NextIndex(i, BATCH_SIZE)
                    /\ pc' = "loop"
                    /\ log' = Append(log, Event("commit", k, Len(objects_to_add)))
                    /\ UNCHANGED <<exitStatus, reported, raised>>
               ELSE /\ Catch(result.raised)
                    /\ log' = Append(log, Event("commit_failed", k, Len(objects_to_add)))
                    /\ UNCHANGED i
    /\ UNCHANGED <<BATCH_SIZE, corpus, run, storeAtStart,
                   id_list, records, papers, batch_papers, embeddings>>

\* load_data_into_db, line 118, and main, lines 144-146: the loop is over
Finish ==
    /\ pc = "loop"
    /\ i >= Len(papers)
    /\ pc' = "exited"
    /\ exitStatus' = 0
    /\ log' = Append(log, Event("complete", 0, Len(papers)))
    /\ UNCHANGED <<reported, raised, BATCH_SIZE, corpus, store, run, storeAtStart,
                   id_list, records, papers, i,
                   batch_papers, embeddings>>

\* if __name__ == "__main__": main() -- the script is started again
RunAgain ==
    /\ pc = "exited"
    /\ run < MaxRuns
    /\ pc' = "start"
    /\ run' = run + 1
    /\ exitStatus' = NoStatus
    /\ reported' = "none"
    /\ raised' = "none"
    /\ storeAtStart' = store
    /\ id_list' = <<>>
    /\ records' = <<>>
    /\ papers' = <<>>
    /\ i' = 0
    /\ batch_papers' = <<>>
    /\ embeddings' = <<>>
    /\ log' = <<>>
    /\ UNCHANGED <<BATCH_SIZE, corpus, store>>

Next ==
    \/ CreateEngine
    \/ InitializeDatabase
    \/ LoadModel
    \/ FetchPubmedAbstracts
    \/ CheckPapers
    \/ EmbedBatch
    \/ CommitBatch
    \/ Finish
    \/ RunAgain

Spec == Init /\ [][Next]_vars

SpecFetch == InitFetch /\ [][Next]_vars

\* ------------------------------------------------------ vocabulary of claims
IsPrefix(a, b) == Len(a) <= Len(b) /\ SubSeq(b, 1, Len(a)) = a

\* ceil(n / b)
CeilDiv(n, b) == (n + b - 1) \div b

\* The rows the current run has added to the table.
Added == SubSeq(store, Len(storeAtStart) + 1, Len(store))

\* The k-th batch a run over papers is to load, as the specification words it:
\* records (k-1)*B+1 .. k*B, the last batch ending with the last record.
BatchOf(k) ==
    SubSeq(papers, (k - 1) * BATCH_SIZE + 1, Min(k * BATCH_SIZE, Len(papers)))

NumBatches == CeilDiv(Len(papers), BATCH_SIZE)

\* The document record a table row was built from.
RecordOf(row) ==
    [pmid |-> row.pmid, title |-> row.title, abstract |-> row.abstract,
     publication_date |-> row.publication_date]

RecordsOf(rows) == [n \in DOMAIN rows |-> RecordOf(rows[n])]

\* The batches handed to the embedding provider so far, in order.
EmbedSeq == SelectSeq(log, LAMBDA e : e.ev = "embed")

RECURSIVE Concat(_)
Concat(ss) == IF ss = <<>> THEN <<>> ELSE Head(ss).n \o Concat(Tail(ss))

LoaderEvents == {"load", "embed", "commit", "commit_failed", "complete"}

LoaderInvoked == \E n \in DOMAIN log : log[n].ev \in LoaderEvents

\* --------------------------------------------------------------------- C1
\* C1: when store initialization fails the process ends with a non-zero exit
\* status, and the run holds no model load, no fetch, no embedding call and
\* no commit; the table is as the run found it.
C1_InitFailureExitsNonZero ==
    raised = "InitError" =>
        /\ pc = "exited"
        /\ exitStatus # 0
        /\ exitStatus # NoStatus
        /\ reported = "init"
        /\ \A n \in DOMAIN log :
              log[n].ev \notin {"model", "esearch", "fetch", "load", "embed",
                                "commit", "commit_failed", "complete"}
        /\ store = storeAtStart

C1_Witness ==
    /\ raised = "InitError"
    /\ pc = "exited"
    /\ exitStatus = 1
    /\ log = <<Event("init_failed", 0, 0)>>

\* --------------------------------------------------------------------- C2
\* C2: when the external source returns zero identifiers the Batch Loader is
\* never invoked (no embedding call, no commit, table unchanged) and the
\* process exits with status 0.
C2_ZeroIdentifiersExitZero ==
    (\E n \in DOMAIN log : log[n].ev = "esearch" /\ log[n].n = 0) =>
        /\ ~LoaderInvoked
        /\ store = storeAtStart
        /\ pc \in {"fetched", "exited"}
        /\ pc = "exited" => exitStatus = 0

C2_Witness ==
    /\ pc = "exited"
    /\ exitStatus = 0
    /\ raised = "none"
    /\ log = <<Event("init_db", 0, 0), Event("model", 0, 0),
               Event("esearch", 0, 0), Event("fetch", 0, 0)>>

\* --------------------------------------------------------------------- C3
\* C3: the batches handed out so far are contiguous, disjoint and in order
\* (their concatenation is a prefix of the records), each holds between 1 and
\* B records and all but the latest exactly B; once the loop is over they are
\* exactly ceil(N / B), cover every record once, and the last one holds
\* N mod B records, or B when B divides N.
C3_BatchesPartitionRecords ==
    LET bs == EmbedSeq
        N == Len(papers)
        B == BATCH_SIZE
    IN /\ IsPrefix(Concat(bs), papers)
       /\ \A k \in DOMAIN bs :
             /\ bs[k].k = k
             /\ Len(bs[k].n) >= 1
             /\ Len(bs[k].n) <= B
             /\ k < Len(bs) => Len(bs[k].n) = B
       /\ (\E n \in DOMAIN log : log[n].ev = "complete") =>
             /\ N >= 1
             /\ Len(bs) = CeilDiv(N, B)
             /\ Concat(bs) = papers
             /\ Len(bs[Len(bs)].n) = (IF N % B = 0 THEN B ELSE N % B)

C3_Witness ==
    /\ pc = "exited"
    /\ log # <<>>
    /\ log[Len(log)].ev = "complete"
    /\ Len(papers) = 3
    /\ BATCH_SIZE = 2
    /\ Len(EmbedSeq) = 2
    /\ Len(EmbedSeq[2].n) = 1

\* --------------------------------------------------------------------- C4
\* C4: the table only grows, and of every batch of the run either all records
\* have a row among those the run added or none has; after a failing commit
\* of batch k no record of batch k has such a row.
C4_BatchCommitAllOrNothing ==
    /\ IsPrefix(storeAtStart, store)
    /\ \A k \in 1..NumBatches :
          Cardinality({n \in DOMAIN Added : Added[n].pmid \in Pmids(BatchOf(k))})
              \in {0, Len(BatchOf(k))}
    /\ (log # <<>> /\ log[Len(log)].ev = "commit_failed") =>
          \A n \in DOMAIN Added : Added[n].pmid \notin Pmids(BatchOf(log[Len(log)].k))

\* A batch of two fails on one identifier that is stored already, the other
\* one being new.
C4_Witness ==
    /\ pc = "exited"
    /\ raised = "IntegrityError"
    /\ Len(batch_papers) = 2
    /\ \E n \in DOMAIN batch_papers : batch_papers[n].pmid \in Pmids(store)
    /\ \E n \in DOMAIN batch_papers : batch_papers[n].pmid \notin Pmids(store)

\* --------------------------------------------------------------------- C5
\* C5: no two rows of the table share a pmid, and a commit of a batch holding
\* a pmid that the table holds already ends the run in an error, reported by
\* the top-level catch, and leaves the table as it was.
C5_DuplicateInsertionFails ==
    /\ [](Distinct([n \in DOMAIN store |-> store[n].pmid]))
    /\ [][(/\ pc = "commit"
           /\ \E n \in DOMAIN batch_papers : batch_papers[n].pmid \in Pmids(store))
          => (/\ store' = store
              /\ pc' = "exited"
              /\ raised' \in {"IntegrityError", "OperationalError"}
              /\ reported' = "catch")]_vars

C5_Witness ==
    /\ run = 2
    /\ pc = "exited"
    /\ raised = "IntegrityError"
    /\ Pmids(papers) = Pmids(store)
    /\ store = storeAtStart
    /\ Len(store) = 2

\* --------------------------------------------------------------------- C6
\* C6: a failed commit of batch k is the last event of the run: batch k was
\* embedded once, batches 1 .. k-1 were committed, nothing follows; the error
\* is reported by the top-level catch and the exit status is 0.
C6_CommitFailureAbortsRun ==
    \A n \in DOMAIN log :
        log[n].ev = "commit_failed" =>
            /\ n = Len(log)
            /\ pc = "exited"
            /\ exitStatus = 0
            /\ reported = "catch"
            /\ raised \in {"IntegrityError", "OperationalError"}
            /\ Count("embed") = log[n].k
            /\ Count("commit") = log[n].k - 1
            /\ Count("commit_failed") = 1
            /\ Len(Added) = (log[n].k - 1) * BATCH_SIZE

C6_Witness ==
    /\ pc = "exited"
    /\ exitStatus = 0
    /\ raised = "IntegrityError"
    /\ log # <<>>
    /\ log[Len(log)].ev = "commit_failed"
    /\ log[Len(log)].k = 2
    /\ Len(Added) = 1

\* --------------------------------------------------------------------- C7
\* A raw record as section 4.2 of the specification wants it kept: the
\* structural fields are there (the parts of the date too, when a structured
\* date is present), and title and abstract are not empty.
DatePresent(article) == Has(article, "ArticleDate") /\ article.ArticleDate # <<>>

WellFormed(record) ==
    /\ Has(record, "MedlineCitation")
    /\ Has(record.MedlineCitation, "PMID")
    /\ Has(record.MedlineCitation, "Article")
    /\ LET article == record.MedlineCitation.Article
       IN /\ Has(article, "ArticleTitle")
          /\ Has(article, "Abstract") => Has(article.Abstract, "AbstractText")
          /\ DatePresent(article) =>
                \A k \in {"Year", "Month", "Day"} : Has(article.ArticleDate[1], k)
          /\ article.ArticleTitle # ""
          /\ AbstractTextOf(article) # ""

ExpectedPaper(record) ==
    LET article == record.MedlineCitation.Article
    IN [pmid |-> record.MedlineCitation.PMID,
        title |-> article.ArticleTitle,
        abstract |-> AbstractTextOf(article),
        publication_date |->
            IF DatePresent(article) THEN PubDateOf(article) ELSE ""]

ExpectedPapers(recs) ==
    LET kept == SelectSeq(recs, WellFormed)
    IN [n \in DOMAIN kept |-> ExpectedPaper(kept[n])]

\* efetch has answered in this run (its answer is still at hand).
Answered == pc = "fetched" \/ records # <<>>

\* C7: once the source has answered, the fetch returns (no record aborts
\* it), and its output is the order-preserving subsequence of the well-formed
\* raw records, one entry each: at most as many as identifiers, none twice.
C7_FetchKeepsExactlyWellFormed ==
    Answered =>
        /\ raised = "none"
        /\ pc = "fetched"
        /\ papers = ExpectedPapers(records)
        /\ Len(papers) <= Len(id_list)
        /\ Distinct([n \in DOMAIN papers |-> papers[n].pmid])

\* --------------------------------------------------------------------- C8
\* C8: every row carries the vector of its own abstract and the fields of the
\* record its pmid has in the source; each batch got one vector per record
\* from one embedding call; the rows the run added are, position by position,
\* the leading records of the run, each with the vector of its own abstract.
VectorOf(txt) == <<"e1:" \o txt, "e2:" \o txt>>

C8_RowsCarryOwnEmbedding ==
    /\ \A n \in DOMAIN store :
          /\ store[n].embedding = VectorOf(store[n].abstract)
          /\ WellFormed(corpus[store[n].pmid])
          /\ RecordOf(store[n]) = ExpectedPaper(corpus[store[n].pmid])
    /\ pc = "commit" =>
          /\ Len(embeddings) = Len(batch_papers)
          /\ \A n \in DOMAIN batch_papers :
                embeddings[n].ndarray = VectorOf(batch_papers[n].abstract)
    /\ Count("embed") =
          Count("commit") + Count("commit_failed") + (IF pc = "commit" THEN 1 ELSE 0)
    /\ Len(Added) <= Len(papers)
    /\ \A n \in DOMAIN Added :
          /\ RecordOf(Added[n]) = papers[n]
          /\ Added[n].embedding = VectorOf(papers[n].abstract)

\* Two rows that one batch of two records added.
C8_Witness ==
    /\ BATCH_SIZE = 2
    /\ Len(Added) = 2
    /\ Count("commit") = 1
    /\ Added[1].embedding # Added[2].embedding

\* --------------------------------------------------------------------- C9
\* C9: the fetch completes before the first embedding call; the embedding
\* call of batch 1 follows the entry into the loader, that of batch k > 1 the
\* commit of batch k-1, and the commit of batch k its embedding call; a run
\* that completes over N records has made ceil(N / B) embedding calls and
\* ceil(N / B) commits and has added N rows.
C9_SequentialCallsAndCounts ==
    /\ \A n \in DOMAIN log :
          /\ log[n].ev = "embed" =>
                /\ \E m \in 1..(n - 1) : log[m].ev = "fetch"
                /\ n > 1
                /\ IF log[n].k = 1 THEN log[n - 1].ev = "load"
                   ELSE log[n - 1].ev = "commit" /\ log[n - 1].k = log[n].k - 1
          /\ log[n].ev = "commit" =>
                /\ n > 1
                /\ log[n - 1].ev = "embed"
                /\ log[n - 1].k = log[n].k
          /\ log[n].ev = "fetch" => \A m \in 1..n : log[m].ev # "embed"
    /\ (log # <<>> /\ log[Len(log)].ev = "complete") =>
          /\ pc = "exited"
          /\ exitStatus = 0
          /\ raised = "none"
          /\ Count("embed") = CeilDiv(Len(papers), BATCH_SIZE)
          /\ Count("commit") = CeilDiv(Len(papers), BATCH_SIZE)
          /\ Len(Added) = Len(papers)
          /\ RecordsOf(Added) = papers

\* N = 2, B = 2: one embedding call, one commit, two rows.
C9_Witness ==
    /\ log # <<>>
    /\ log[Len(log)].ev = "complete"
    /\ Len(papers) = 2
    /\ BATCH_SIZE = 2
    /\ Count("embed") = 1
    /\ Count("commit") = 1
    /\ Len(Added) = 2

\* -------------------------------------------------------------------- C10
\* C10: the table only grows; a run that found the table empty has in it, at
\* every moment, exactly the records of its first k batches, k the commits
\* that succeeded, also after a later batch failed; a run that fetches a
\* record sequence whose leading records are the rows it found in the table
\* (what a re-run over the same sequence does after a partial or complete
\* run) commits nothing, ends in an error and leaves the table unchanged.
C10_NoRollbackNoResume ==
    /\ IsPrefix(storeAtStart, store)
    /\ storeAtStart = <<>> =>
          RecordsOf(store) =
              SubSeq(papers, 1, Min(Count("commit") * BATCH_SIZE, Len(papers)))
    /\ (/\ storeAtStart # <<>>
        /\ papers # <<>>
        /\ IsPrefix(RecordsOf(storeAtStart), papers)) =>
          /\ store = storeAtStart
          /\ Count("commit") = 0
          /\ Count("complete") = 0
          /\ pc = "exited" =>
                /\ raised # "none"
                /\ reported = "catch"
                /\ \A n \in DOMAIN log : log[n].ev \in {"embed", "commit_failed"}
                                            => log[n].k = 1

\* The second run refetches the sequence of which the first run committed
\* only the first batch; it fails on that batch and the rest stays unloaded.
C10_Witness ==
    /\ run = 2
    /\ pc = "exited"
    /\ raised = "IntegrityError"
    /\ storeAtStart # <<>>
    /\ IsPrefix(RecordsOf(storeAtStart), papers)
    /\ Len(papers) > Len(storeAtStart)
    /\ store = storeAtStart
    /\ log[Len(log)] = Event("commit_failed", 1, Len(batch_papers))

====
